---------------------------- MODULE Spec2Model ----------------------------
(***************************************************************************)
(* A model of ConsoleMonkeyPatch (src/README.md, lines 96-379): the        *)
(* context with its two channel sinks, the timer registry, the exposed     *)
(* console surface (synthesized or proxy), the captured copy of the        *)
(* backing logger, and every operation reachable through the surface and   *)
(* through patch().                                                        *)
(*                                                                         *)
(* JavaScript strings are sequences of one-character strings, so that      *)
(* concatenation, trim(), includes() and replace() are computed the way    *)
(* the runtime computes them.                                              *)
(***************************************************************************)
EXTENDS Integers, Sequences, FiniteSets, TLC

(***************************************************************************)
(* Bounds of the model.                                                    *)
(***************************************************************************)
\* number of operations (surface calls, patches, method replacements) per run
MaxOps == 2
\* number of operations per run when only the timers, clear and patch are exercised
MaxTimerOps == 3
\* number of arguments of a call when only the formatter is exercised
MaxArgs == 3
\* the largest value Date.now() gives
MaxClock == 1

(***************************************************************************)
(* JavaScript values (src/src/types.ts, ConsoleMethodArgument) and the     *)
(* values the handlers produce.                                            *)
(***************************************************************************)
Undefined == [t |-> "undefined"]
Str(s) == [t |-> "string", s |-> s]
Num(n) == [t |-> "number", n |-> n]
Bool(b) == [t |-> "boolean", b |-> b]
\* an object literal: a sequence of <<key, value>> pairs in insertion order
Obj(f) == [t |-> "object", f |-> f]
\* an array: a sequence of values
Arr(a) == [t |-> "array", a |-> a]

\* typeof v === 'object'
IsObjectTyped(v) == v.t \in {"object", "array"}

(***************************************************************************)
(* String primitives.                                                      *)
(***************************************************************************)
IsWhite(c) == c \in {" ", "\n", "\t"}

RECURSIVE TrimStart(_)
TrimStart(s) ==
    IF s = <<>> THEN <<>>
    ELSE IF IsWhite(Head(s)) THEN TrimStart(Tail(s)) ELSE s

RECURSIVE TrimEnd(_)
TrimEnd(s) ==
    IF s = <<>> THEN <<>>
    ELSE IF IsWhite(s[Len(s)]) THEN TrimEnd(SubSeq(s, 1, Len(s) - 1)) ELSE s

\* String.prototype.trim
Trim(s) == TrimEnd(TrimStart(s))

\* s has pat at position i (1-based)
MatchAt(s, pat, i) ==
    /\ i + Len(pat) - 1 <= Len(s)
    /\ SubSeq(s, i, i + Len(pat) - 1) = pat

\* String.prototype.indexOf, 1-based, 0 when there is no occurrence
IndexOf(s, pat) ==
    IF \E i \in 1..Len(s) : MatchAt(s, pat, i)
    THEN CHOOSE i \in 1..Len(s) :
            /\ MatchAt(s, pat, i)
            /\ \A j \in 1..(i - 1) : ~MatchAt(s, pat, j)
    ELSE 0

\* String.prototype.includes
Includes(s, pat) == IndexOf(s, pat) # 0

\* The replacement text of String.prototype.replace(pattern, replacement) with a
\* string pattern: $$ is a dollar sign, $& the matched text, $` the text before
\* the match and $' the text after it; every other character stands for itself.
RECURSIVE ExpandReplacement(_, _, _, _)
ExpandReplacement(repl, matched, before, after) ==
    IF repl = <<>> THEN <<>>
    ELSE IF Head(repl) = "$" /\ Len(repl) >= 2 /\ repl[2] \in {"$", "&", "`", "'"}
         THEN (CASE repl[2] = "$" -> <<"$">>
                 [] repl[2] = "&" -> matched
                 [] repl[2] = "`" -> before
                 [] repl[2] = "'" -> after)
              \o ExpandReplacement(SubSeq(repl, 3, Len(repl)), matched, before, after)
         ELSE <<Head(repl)>> \o ExpandReplacement(Tail(repl), matched, before, after)

\* String.prototype.replace(pat, repl) with a string pattern: the first
\* occurrence only
Replace(s, pat, repl) ==
    LET i == IndexOf(s, pat) IN
    IF i = 0 THEN s
    ELSE LET before == SubSeq(s, 1, i - 1)
             after == SubSeq(s, i + Len(pat), Len(s))
         IN before \o ExpandReplacement(repl, pat, before, after) \o after

Digit(d) == <<"0", "1", "2", "3", "4", "5", "6", "7", "8", "9">>[d + 1]

\* the decimal form of a natural number
RECURSIVE NumToStr(_)
NumToStr(n) == IF n < 10 THEN <<Digit(n)>> ELSE NumToStr(n \div 10) \o <<Digit(n % 10)>>

\* Array.prototype.join over a sequence of strings
RECURSIVE Join(_, _)
Join(parts, sep) ==
    IF parts = <<>> THEN <<>>
    ELSE IF Len(parts) = 1 THEN parts[1]
    ELSE parts[1] \o sep \o Join(Tail(parts), sep)

\* JSON.stringify of a string, number, object or array, as text
RECURSIVE JsonText(_)
JsonText(v) ==
    CASE v.t = "string" -> <<"\"">> \o v.s \o <<"\"">>
      [] v.t = "number" -> NumToStr(v.n)
      [] v.t = "boolean" -> IF v.b THEN <<"t", "r", "u", "e">> ELSE <<"f", "a", "l", "s", "e">>
      [] v.t = "object" ->
            <<"{">>
            \o Join([i \in 1..Len(v.f) |->
                        <<"\"">> \o v.f[i][1] \o <<"\"", ":">> \o JsonText(v.f[i][2])],
                    <<",">>)
            \o <<"}">>
      [] v.t = "array" ->
            <<"[">> \o Join([i \in 1..Len(v.a) |-> JsonText(v.a[i])], <<",">>) \o <<"]">>
      [] OTHER -> <<"n", "u", "l", "l">>

\* JSON.stringify: undefined for undefined, text otherwise
JSONstringify(v) == IF v.t = "undefined" THEN Undefined ELSE Str(JsonText(v))

\* String(v) and `${v}`
RECURSIVE ToStr(_)
ToStr(v) ==
    CASE v.t = "string" -> v.s
      [] v.t = "number" -> NumToStr(v.n)
      [] v.t = "boolean" -> IF v.b THEN <<"t", "r", "u", "e">> ELSE <<"f", "a", "l", "s", "e">>
      [] v.t = "undefined" -> <<"u", "n", "d", "e", "f", "i", "n", "e", "d">>
      [] v.t = "object" ->
            <<"[", "o", "b", "j", "e", "c", "t", " ", "O", "b", "j", "e", "c", "t", "]">>
      [] v.t = "array" -> Join([i \in 1..Len(v.a) |-> ToStr(v.a[i])], <<",">>)

(***************************************************************************)
(* Text constants of the source.                                           *)
(***************************************************************************)
LogPrefix == <<"L", "O", "G", ":", " ">>
AssertionFailedColon ==
    <<"A", "s", "s", "e", "r", "t", "i", "o", "n", " ", "f", "a", "i", "l", "e", "d", ":">>
AssertionFailedPrefix == AssertionFailedColon \o <<" ">>
PercentO == <<"%", "o">>
DefaultLabel == <<"d", "e", "f", "a", "u", "l", "t">>
TimerQuote == <<"T", "i", "m", "e", "r", " ", "'">>
AlreadyExists == <<"'", " ", "a", "l", "r", "e", "a", "d", "y", " ", "e", "x", "i", "s", "t", "s">>
DoesNotExist == <<"'", " ", "d", "o", "e", "s", " ", "n", "o", "t", " ", "e", "x", "i", "s", "t">>
MsSuffix == <<"m", "s">>
NoStackTrace ==
    <<"N", "o", " ", "s", "t", "a", "c", "k", " ", "t", "r", "a", "c", "e", " ",
      "a", "v", "a", "i", "l", "a", "b", "l", "e">>
Newline == <<"\n">>

(***************************************************************************)
(* The console surface (src/src/types.ts, AdvancedConsole).                *)
(***************************************************************************)
Methods ==
    {"log", "error", "info", "debug", "warn", "table", "assert", "time", "timeEnd",
     "clear", "group", "groupEnd", "trace"}

\* the methods createDefaultConsole builds with logOrSend alone
LogOrSendMethods == {"log", "info", "debug", "error", "warn", "group", "groupEnd"}

ErrorMethods == {"error", "warn"}

(***************************************************************************)
(* Sinks and contexts (src/src/types.ts, WritableContext).  A string sink  *)
(* holds its text, a function sink the messages it was called with, in     *)
(* order; a null sink holds nothing.                                       *)
(***************************************************************************)
StringSink(text) == [kind |-> "string", text |-> text, calls |-> <<>>]
FunctionSink == [kind |-> "function", text |-> <<>>, calls |-> <<>>]
NullSink == [kind |-> "null", text |-> <<>>, calls |-> <<>>]

\* { stdout: '', stderr: '' }
DefaultContext == [stdout |-> StringSink(<<>>), stderr |-> StringSink(<<>>)]

\* ChannelOf with warn left out of the error methods
ChannelOf_WarnToStdout(method) == IF method = "error" THEN "stderr" ELSE "stdout"

\* the channel writeToTarget selects for a method
ChannelOf(method) == IF method \in ErrorMethods THEN "stderr" ELSE "stdout"

\* WriteToTarget appending to whatever is not a callback: null + message + "\n"
\* is the string "null" followed by the line
WriteToTarget_AppendsToNull(ctx, method, message) ==
    LET target == ctx[ChannelOf(method)] IN
    IF target.kind = "function"
    THEN [ctx EXCEPT ![ChannelOf(method)].calls = Append(@, message)]
    ELSE [ctx EXCEPT ![ChannelOf(method)] =
             StringSink((IF target.kind = "null" THEN <<"n", "u", "l", "l">> ELSE target.text)
                        \o message \o Newline)]

\* WriteToTarget storing the line in place of a callback instead of calling it
WriteToTarget_ReplacesCallback(ctx, method, message) ==
    LET target == ctx[ChannelOf(method)] IN
    IF target.kind = "function"
    THEN [ctx EXCEPT ![ChannelOf(method)] = StringSink(message \o Newline)]
    ELSE IF target.kind = "string"
    THEN [ctx EXCEPT ![ChannelOf(method)].text = @ \o message \o Newline]
    ELSE ctx

\* writeToTarget: the context after the message was written
WriteToTarget(ctx, method, message) ==
    LET target == ctx[ChannelOf(method)] IN
    IF target.kind = "function"
    THEN [ctx EXCEPT ![ChannelOf(method)].calls = Append(@, message)]
    ELSE IF target.kind = "string"
    THEN [ctx EXCEPT ![ChannelOf(method)].text = @ \o message \o Newline]
    ELSE ctx

\* ConcatArgs with no space after an argument that is not an object
RECURSIVE ConcatArgs_NoSpace(_)
ConcatArgs_NoSpace(args) ==
    IF args = <<>> THEN <<>>
    ELSE (IF IsObjectTyped(Head(args)) THEN JsonText(Head(args)) ELSE ToStr(Head(args)))
         \o ConcatArgs_NoSpace(Tail(args))

\* the loop of logOrSend: message += typeof arg === 'object' ? JSON.stringify(arg) : `${arg} `
RECURSIVE ConcatArgs(_)
ConcatArgs(args) ==
    IF args = <<>> THEN <<>>
    ELSE (IF IsObjectTyped(Head(args))
          THEN JsonText(Head(args))
          ELSE ToStr(Head(args)) \o <<" ">>)
         \o ConcatArgs(Tail(args))

\* FormatMessage without the trim()
FormatMessage_NoTrim(args) == LogPrefix \o ConcatArgs(args)

\* formattedMessage of logOrSend
FormatMessage(args) == LogPrefix \o Trim(ConcatArgs(args))

(***************************************************************************)
(* Inputs: the arguments the callers of the model pass.                    *)
(***************************************************************************)
Hi == <<"h", "i">>
\* { n: 3 }
ObjN == Obj(<< <<(<<"n">>), Num(3)>> >>)
\* { a: '$&' }
ObjDollar == Obj(<< <<(<<"a">>), Str(<<"$", "&">>)>> >>)
\* a stack as new Error().stack gives it: several lines
StackText == <<"E", "r", "r", "o", "r", "\n", " ", "a", "t", " ", "f">>

\* argument lists of a call of each method
ArgsOf(m) ==
    CASE m \in {"log", "error"} -> {<<Str(Hi)>>, <<ObjN, Str(<<"x">>)>>}
      [] m \in {"info", "debug", "warn", "group"} -> {<<Str(Hi)>>}
      [] m = "groupEnd" -> {<<>>}
      [] m = "table" -> {<<Arr(<<ObjN>>)>>}
      [] m = "trace" -> {<<Str(Hi)>>}
      [] m \in {"time", "timeEnd"} -> {<<>>, <<Str(DefaultLabel)>>, <<Str(<<"t">>)>>}
      [] m = "clear" -> {<<>>}
      [] m = "assert" ->
            {<<Bool(c)>> \o d :
                c \in BOOLEAN,
                d \in {<<Str(PercentO), ObjN>>, <<Str(PercentO), ObjDollar>>,
                       <<Str(<<"x">>), Num(3)>>}}

SinkKinds == {StringSink(<<>>), FunctionSink, NullSink}

\* the contexts a caller supplies
Contexts == [stdout : SinkKinds, stderr : SinkKinds]

\* the contexts a caller supplies to patch()
PatchContexts ==
    {[stdout |-> StringSink(<<>>), stderr |-> StringSink(<<>>)],
     [stdout |-> FunctionSink, stderr |-> NullSink]}

\* an optional context or console instance that is not supplied
None == [none |-> TRUE]

\* A logger object: fn[m] is the generation of the function stored under m
\* (-1: the object has no such method); its functions return either nothing
\* ("void") or a string made from their arguments ("text").
FullLogger == [fn |-> [m \in Methods |-> 0], ret |-> "text"]
BasicLogger ==
    [fn |-> [m \in Methods |-> IF m \in {"log", "error"} THEN 0 ELSE -1], ret |-> "void"]
LoggerShapes == {FullLogger, BasicLogger}

(***************************************************************************)
(* The state.                                                              *)
(***************************************************************************)
VARIABLES
    ctxHeap,      \* the context objects handed to the engine, in order of arrival
    context,      \* this.context: the index in ctxHeap of the active context
    timers,       \* this.timers: label -> start timestamp
    console,      \* this.console: the exposed surface
    original,     \* this.originalUnpatchedConsoleInstance: method -> captured function
    loggers,      \* the logger objects handed to the engine, in order of arrival
    invocations,  \* the calls made to functions of logger objects, in order
    now,          \* the value Date.now() returns
    ctor,         \* the arguments the constructor was called with
    last,         \* the last operation and what it returned
    nOps          \* the number of operations so far

vars ==
    <<ctxHeap, context, timers, console, original, loggers, invocations, now, ctor, last, nOps>>

\* no function under this name
NoImpl == [obj |-> 0, m |-> "", gen |-> -1]

\* MethodOf giving the function the object held under m when it was supplied
MethodOf_AsSupplied(l, m) ==
    IF loggers[l].fn[m] >= 0 THEN [obj |-> l, m |-> m, gen |-> 0] ELSE NoImpl

\* the function stored under m in logger object l now
MethodOf(l, m) ==
    IF loggers[l].fn[m] >= 0 THEN [obj |-> l, m |-> m, gen |-> loggers[l].fn[m]] ELSE NoImpl

\* what a call of function f with args returns: string | void
Ret(f, args) ==
    IF loggers[f.obj].ret = "text" THEN Str(<<">">> \o Trim(ConcatArgs(args))) ELSE Undefined

\* the record of one call of function f
Invocation(f, this, args) == [impl |-> f, this |-> this, args |-> args, ret |-> Ret(f, args)]

\* Date.now(): the clock never runs backwards, now is the last value it gave
Clock == now..MaxClock

\* the active context object
ActiveContext == ctxHeap[context]

\* createDefaultConsole: the synthesized surface
CreateDefaultConsole(hookMode) == [kind |-> "default", hookMode |-> hookMode, target |-> 0]

\* createProxy: the proxy over logger object l
CreateProxy(l, hookMode) == [kind |-> "proxy", hookMode |-> hookMode, target |-> l]

\* the constructor
Init ==
    \E c \in Contexts \cup {None}, l \in LoggerShapes \cup {None}, hookMode \in BOOLEAN :
        /\ ctxHeap = <<IF c = None THEN DefaultContext ELSE c>>
        /\ context = 1
        /\ timers = [label \in {} |-> 0]
        /\ loggers = IF l = None THEN <<>> ELSE <<l>>
        /\ original = [m \in Methods |->
                          IF l # None /\ l.fn[m] >= 0
                          THEN [obj |-> 1, m |-> m, gen |-> l.fn[m]]
                          ELSE NoImpl]
        /\ console = IF l # None THEN CreateProxy(1, hookMode)
                     ELSE CreateDefaultConsole(hookMode)
        /\ invocations = <<>>
        /\ now = 0
        /\ ctor = [context |-> c # None, consoleInstance |-> l # None, hookMode |-> hookMode]
        /\ last = [op |-> "new", m |-> "", args |-> <<>>, ret |-> Undefined, threw |-> FALSE,
                   prev |-> <<>>]
        /\ nOps = 0

(***************************************************************************)
(* The handlers, as functions of the active context object ctx and the     *)
(* invocation log inv: each gives the context object and the log after the *)
(* call, and the value the call returns.                                   *)
(***************************************************************************)
Result(ctx, inv, ret) == [ctx |-> ctx, inv |-> inv, ret |-> ret]

\* LogOrSend with hook mode taking the place of the local write
LogOrSend_HookSkipsLocalWrite(method, hookMode, args, ctx, inv) ==
    LET written == IF hookMode THEN ctx ELSE WriteToTarget(ctx, method, FormatMessage(args))
        originalMethod == original[method]
    IN IF hookMode /\ originalMethod # NoImpl
       THEN Result(written, Append(inv, Invocation(originalMethod, "copy", args)),
                   Ret(originalMethod, args))
       ELSE Result(written, inv, Undefined)

\* logOrSend(method, hookMode)(...args)
LogOrSend(method, hookMode, args, ctx, inv) ==
    LET written == WriteToTarget(ctx, method, FormatMessage(args))
        originalMethod == original[method]
    IN IF hookMode /\ originalMethod # NoImpl
       THEN Result(written, Append(inv, Invocation(originalMethod, "copy", args)),
                   Ret(originalMethod, args))
       ELSE Result(written, inv, Undefined)

\* the message createDefaultConsole's assert builds for a failed assertion
AssertMessage(data) ==
    LET d0 == IF Len(data) >= 1 THEN data[1] ELSE Undefined
        d1 == IF Len(data) >= 2 THEN data[2] ELSE Undefined
    IN IF d0.t = "string" /\ Includes(d0.s, PercentO)
       THEN AssertionFailedPrefix \o Replace(d0.s, PercentO, ToStr(JSONstringify(d1)))
       ELSE AssertionFailedPrefix
            \o Join([i \in 1..Len(data) |->
                        IF IsObjectTyped(data[i]) THEN JsonText(data[i]) ELSE ToStr(data[i])],
                    <<" ">>)

\* createDefaultConsole's assert
DefaultAssert(hookMode, condition, data, ctx, inv) ==
    IF ~condition
    THEN LogOrSend("log", hookMode, <<Str(AssertMessage(data))>>, ctx, inv)
    ELSE Result(ctx, inv, Undefined)

\* createDefaultConsole's table
DefaultTable(hookMode, args, ctx, inv) ==
    LET data == IF Len(args) >= 1 THEN args[1] ELSE Undefined
        optionalParams == IF Len(args) >= 1 THEN Tail(args) ELSE <<>>
    IN LogOrSend("table", hookMode, <<JSONstringify(data)>> \o optionalParams, ctx, inv)

\* createDefaultConsole's trace; stack is what new Error().stack gave
DefaultTrace(hookMode, args, stack, ctx, inv) ==
    LET traceMessage == IF stack.t = "string" /\ stack.s # <<>> THEN stack
                        ELSE Str(NoStackTrace)
    IN LogOrSend("trace", hookMode, args \o <<traceMessage>>, ctx, inv)

\* DefaultClear resetting every sink that is not null, callbacks included
DefaultClear_ResetsCallbacks(ctx, inv) ==
    LET cleared == [ch \in {"stdout", "stderr"} |->
                       IF ctx[ch].kind # "null" THEN StringSink(<<>>) ELSE ctx[ch]]
        originalClear == original["clear"]
    IN IF originalClear # NoImpl
       THEN Result(cleared, Append(inv, Invocation(originalClear, "copy", <<>>)),
                   Ret(originalClear, <<>>))
       ELSE Result(cleared, inv, Undefined)

\* createDefaultConsole's clear
DefaultClear(ctx, inv) ==
    LET cleared == [ch \in {"stdout", "stderr"} |->
                       IF ctx[ch].kind = "string" THEN StringSink(<<>>) ELSE ctx[ch]]
        originalClear == original["clear"]
    IN IF originalClear # NoImpl
       THEN Result(cleared, Append(inv, Invocation(originalClear, "copy", <<>>)),
                   Ret(originalClear, <<>>))
       ELSE Result(cleared, inv, Undefined)

\* LabelStr without the default of the label parameter
LabelStr_NoDefault(args) == ToStr(IF args = <<>> THEN Undefined ELSE args[1])

\* the label of time and timeEnd: String(label), label defaulting to 'default'
LabelStr(args) == ToStr(IF args = <<>> \/ args[1] = Undefined THEN Str(DefaultLabel) ELSE args[1])

\* ProxyAssert without the test of the condition
ProxyAssert_Unconditional(hookMode, condition, data, ctx, inv) ==
    LogOrSend("log", hookMode, <<Str(AssertionFailedColon)>> \o data, ctx, inv)

\* the proxy's assert
ProxyAssert(hookMode, condition, data, ctx, inv) ==
    IF ~condition
    THEN LogOrSend("log", hookMode, <<Str(AssertionFailedColon)>> \o data, ctx, inv)
    ELSE Result(ctx, inv, Undefined)

\* ProxyPassthrough going through the wrapper although hook mode is off
ProxyPassthrough_CalledTwice(f, args, ctx, inv) ==
    Result(ctx,
           inv \o <<Invocation(f, "target", args), Invocation(f, "target", <<Ret(f, args)>>)>>,
           Ret(f, args))

\* the proxy with hook mode off: the target's own function, called on the proxy
ProxyPassthrough(f, args, ctx, inv) ==
    Result(ctx, Append(inv, Invocation(f, "proxy", args)), Ret(f, args))

\* ProxyWrapper whose second call passes the caller's arguments again
ProxyWrapper_SameArgs(f, args, ctx, inv) ==
    Result(ctx,
           inv \o <<Invocation(f, "target", args), Invocation(f, "target", args)>>,
           Ret(f, args))

\* the proxy with hook mode on: the wrapper around the target's function
ProxyWrapper(f, args, ctx, inv) ==
    LET output == Ret(f, args) IN
    Result(ctx,
           inv \o <<Invocation(f, "target", args), Invocation(f, "target", <<output>>)>>,
           output)

(***************************************************************************)
(* The operations.  A call through this.console takes the handler the      *)
(* surface holds for the method; r is the handler's Result.                *)
(***************************************************************************)
\* the record of an operation: what it was, what it returned or whether it
\* raised, and (prev) which operation came before it
Operation(op, m, args, ret, threw) ==
    [op |-> op, m |-> m, args |-> args, ret |-> ret, threw |-> threw,
     prev |-> <<last.op, last.m, last.args>>]

\* a call of method m that returned: the state after it
Returned(m, args, r, newTimers, newNow) ==
    /\ ctxHeap' = [ctxHeap EXCEPT ![context] = r.ctx]
    /\ invocations' = r.inv
    /\ timers' = newTimers
    /\ now' = newNow
    /\ last' = Operation("call", m, args, r.ret, FALSE)
    /\ nOps' = nOps + 1
    /\ UNCHANGED <<context, console, original, loggers, ctor>>

\* log, info, debug, error, warn, group, groupEnd of the synthesized surface
CallLogOrSend(m, limit) ==
    /\ nOps < limit
    /\ console.kind = "default"
    /\ \E args \in ArgsOf(m) :
          Returned(m, args,
                   LogOrSend(m, console.hookMode, args, ActiveContext, invocations), timers, now)

\* table of the synthesized surface
CallTable(limit) ==
    /\ nOps < limit
    /\ console.kind = "default"
    /\ \E args \in ArgsOf("table") :
          Returned("table", args,
                   DefaultTable(console.hookMode, args, ActiveContext, invocations), timers, now)

\* assert of the synthesized surface
CallAssert(limit) ==
    /\ nOps < limit
    /\ console.kind = "default"
    /\ \E args \in ArgsOf("assert") :
          Returned("assert", args,
                   DefaultAssert(console.hookMode, args[1].b, Tail(args), ActiveContext,
                                 invocations),
                   timers, now)

\* time of the synthesized surface; t is what Date.now() gives
CallTime(limit) ==
    /\ nOps < limit
    /\ console.kind = "default"
    /\ \E args \in ArgsOf("time") :
          LET labelStr == LabelStr(args) IN
          IF labelStr \in DOMAIN timers
          THEN Returned("time", args,
                        LogOrSend("error", console.hookMode,
                                  <<Str(TimerQuote \o labelStr \o AlreadyExists)>>,
                                  ActiveContext, invocations),
                        timers, now)
          ELSE \E t \in Clock :
                  Returned("time", args, Result(ActiveContext, invocations, Undefined),
                           [l \in DOMAIN timers \cup {labelStr} |->
                               IF l = labelStr THEN t ELSE timers[l]],
                           t)

\* CallTimeEnd without the timers.delete(labelStr)
CallTimeEnd_KeepsEntry(limit) ==
    /\ nOps < limit
    /\ console.kind = "default"
    /\ \E args \in ArgsOf("timeEnd") :
          LET labelStr == LabelStr(args) IN
          IF labelStr \in DOMAIN timers
          THEN \E t \in Clock :
                  LET duration == t - timers[labelStr] IN
                  Returned("timeEnd", args,
                           LogOrSend("log", console.hookMode,
                                     <<Str(labelStr \o <<":", " ">> \o NumToStr(duration)
                                           \o MsSuffix)>>,
                                     ActiveContext, invocations),
                           timers,
                           t)
          ELSE Returned("timeEnd", args,
                        LogOrSend("error", console.hookMode,
                                  <<Str(TimerQuote \o labelStr \o DoesNotExist)>>,
                                  ActiveContext, invocations),
                        timers, now)

\* CallTimeEnd with the duration taken as Date.now() itself
CallTimeEnd_DurationIsNow(limit) ==
    /\ nOps < limit
    /\ console.kind = "default"
    /\ \E args \in ArgsOf("timeEnd") :
          LET labelStr == LabelStr(args) IN
          IF labelStr \in DOMAIN timers
          THEN \E t \in Clock :
                  LET duration == t IN
                  Returned("timeEnd", args,
                           LogOrSend("log", console.hookMode,
                                     <<Str(labelStr \o <<":", " ">> \o NumToStr(duration)
                                           \o MsSuffix)>>,
                                     ActiveContext, invocations),
                           [l \in DOMAIN timers \ {labelStr} |-> timers[l]],
                           t)
          ELSE Returned("timeEnd", args,
                        LogOrSend("error", console.hookMode,
                                  <<Str(TimerQuote \o labelStr \o DoesNotExist)>>,
                                  ActiveContext, invocations),
                        timers, now)

\* timeEnd of the synthesized surface; t is what Date.now() gives
CallTimeEnd(limit) ==
    /\ nOps < limit
    /\ console.kind = "default"
    /\ \E args \in ArgsOf("timeEnd") :
          LET labelStr == LabelStr(args) IN
          IF labelStr \in DOMAIN timers
          THEN \E t \in Clock :
                  LET duration == t - timers[labelStr] IN
                  Returned("timeEnd", args,
                           LogOrSend("log", console.hookMode,
                                     <<Str(labelStr \o <<":", " ">> \o NumToStr(duration)
                                           \o MsSuffix)>>,
                                     ActiveContext, invocations),
                           [l \in DOMAIN timers \ {labelStr} |-> timers[l]],
                           t)
          ELSE Returned("timeEnd", args,
                        LogOrSend("error", console.hookMode,
                                  <<Str(TimerQuote \o labelStr \o DoesNotExist)>>,
                                  ActiveContext, invocations),
                        timers, now)

\* clear of the synthesized surface
CallClear(limit) ==
    /\ nOps < limit
    /\ console.kind = "default"
    /\ Returned("clear", <<>>, DefaultClear(ActiveContext, invocations), timers, now)

\* trace of the synthesized surface; the runtime may or may not provide a stack
CallTrace(limit) ==
    /\ nOps < limit
    /\ console.kind = "default"
    /\ \E args \in ArgsOf("trace"), stack \in {Str(StackText), Undefined} :
          Returned("trace", args,
                   DefaultTrace(console.hookMode, args, stack, ActiveContext, invocations),
                   timers, now)

\* assert of the proxy
CallProxyAssert(limit) ==
    /\ nOps < limit
    /\ console.kind = "proxy"
    /\ \E args \in ArgsOf("assert") :
          Returned("assert", args,
                   ProxyAssert(console.hookMode, args[1].b, Tail(args), ActiveContext,
                               invocations),
                   timers, now)

\* a function-valued property of the proxy's target, hook mode off
CallProxyPassthrough(m, limit) ==
    /\ nOps < limit
    /\ console.kind = "proxy"
    /\ m # "assert"
    /\ MethodOf(console.target, m) # NoImpl
    /\ ~console.hookMode
    /\ \E args \in ArgsOf(m) :
          Returned(m, args,
                   ProxyPassthrough(MethodOf(console.target, m), args, ActiveContext,
                                    invocations),
                   timers, now)

\* a function-valued property of the proxy's target, hook mode on
CallProxyWrapper(m, limit) ==
    /\ nOps < limit
    /\ console.kind = "proxy"
    /\ m # "assert"
    /\ MethodOf(console.target, m) # NoImpl
    /\ console.hookMode
    /\ \E args \in ArgsOf(m) :
          Returned(m, args,
                   ProxyWrapper(MethodOf(console.target, m), args, ActiveContext,
                                invocations),
                   timers, now)

\* a property the proxy's target does not have: Reflect.get gives undefined,
\* and calling undefined raises a TypeError
CallProxyMissing(m, limit) ==
    /\ nOps < limit
    /\ console.kind = "proxy"
    /\ m # "assert"
    /\ MethodOf(console.target, m) = NoImpl
    /\ \E args \in ArgsOf(m) :
          last' = Operation("call", m, args, Undefined, TRUE)
    /\ nOps' = nOps + 1
    /\ UNCHANGED <<ctxHeap, context, timers, console, original, loggers, invocations, now, ctor>>

\* Patch starting over with an empty timer registry
Patch_ResetsTimers(c, l, hookMode, limit) ==
    /\ nOps < limit
    /\ ctxHeap' = IF c # None THEN Append(ctxHeap, c) ELSE ctxHeap
    /\ context' = IF c # None THEN Len(ctxHeap) + 1 ELSE context
    /\ loggers' = IF l # None THEN Append(loggers, l) ELSE loggers
    /\ console' = IF l # None THEN CreateProxy(Len(loggers) + 1, hookMode) ELSE console
    /\ timers' = [label \in {} |-> 0]
    /\ last' = Operation("patch", "", <<>>, Undefined, FALSE)
    /\ nOps' = nOps + 1
    /\ UNCHANGED <<original, invocations, now, ctor>>

\* patch(context?, consoleInstance?, hookMode)
Patch(c, l, hookMode, limit) ==
    /\ nOps < limit
    /\ ctxHeap' = IF c # None THEN Append(ctxHeap, c) ELSE ctxHeap
    /\ context' = IF c # None THEN Len(ctxHeap) + 1 ELSE context
    /\ loggers' = IF l # None THEN Append(loggers, l) ELSE loggers
    /\ console' = IF l # None THEN CreateProxy(Len(loggers) + 1, hookMode) ELSE console
    /\ last' = Operation("patch", "", <<>>, Undefined, FALSE)
    /\ nOps' = nOps + 1
    /\ UNCHANGED <<timers, original, invocations, now, ctor>>

\* the caller stores a new function under m in logger object l (as vi.spyOn does)
ReplaceMethod(l, m, limit) ==
    /\ nOps < limit
    /\ loggers[l].fn[m] = 0
    /\ loggers' = [loggers EXCEPT ![l].fn[m] = 1]
    /\ last' = Operation("replace", m, <<>>, Undefined, FALSE)
    /\ nOps' = nOps + 1
    /\ UNCHANGED <<ctxHeap, context, timers, console, original, invocations, now, ctor>>

Next ==
    \/ \E m \in LogOrSendMethods : CallLogOrSend(m, MaxOps)
    \/ CallTable(MaxOps)
    \/ CallAssert(MaxOps)
    \/ CallTime(MaxOps)
    \/ CallTimeEnd(MaxOps)
    \/ CallClear(MaxOps)
    \/ CallTrace(MaxOps)
    \/ CallProxyAssert(MaxOps)
    \/ \E m \in Methods : CallProxyPassthrough(m, MaxOps)
    \/ \E m \in Methods : CallProxyWrapper(m, MaxOps)
    \/ \E m \in Methods : CallProxyMissing(m, MaxOps)
    \/ \E c \in PatchContexts \cup {None} : Patch(c, None, FALSE, MaxOps)
    \/ \E c \in PatchContexts \cup {None}, hookMode \in BOOLEAN :
          Patch(c, FullLogger, hookMode, MaxOps)
    \/ \E l \in DOMAIN loggers : ReplaceMethod(l, "log", MaxOps)

Spec == Init /\ [][Next]_vars

(***************************************************************************)
(* The formatter alone: one call of a logOrSend method of the synthesized  *)
(* surface, with every argument list of up to MaxArgs strings, numbers and *)
(* objects.                                                                *)
(***************************************************************************)
\* the arguments of a call: strings (with and without surrounding
\* whitespace, and the empty string), a number and an object
FormatValues == {Str(Hi), Str(<<" ", "a", " ">>), Str(<<>>), Num(12), ObjN}

RECURSIVE ListsUpTo(_, _)
ListsUpTo(S, n) ==
    IF n = 0 THEN {<<>>}
    ELSE LET shorter == ListsUpTo(S, n - 1) IN
         shorter \cup {Append(l, v) : l \in {x \in shorter : Len(x) = n - 1}, v \in S}

FormatArgs == ListsUpTo(FormatValues, MaxArgs)

InitFormat == Init /\ console.kind = "default"

\* the first call of the surface: log(...args) or warn(...args)
CallFormat ==
    /\ nOps = 0
    /\ console.kind = "default"
    /\ \E m \in {"log", "warn"}, args \in FormatArgs :
          Returned(m, args,
                   LogOrSend(m, console.hookMode, args, ActiveContext, invocations), timers, now)

NextFormat == CallFormat

SpecFormat == InitFormat /\ [][NextFormat]_vars

(***************************************************************************)
(* The timers alone: an instance constructed without a logger, on which    *)
(* only time, timeEnd, clear and patch without a logger are performed, for *)
(* MaxTimerOps operations.                                                 *)
(***************************************************************************)
InitTimers == Init /\ console.kind = "default"

NextTimers ==
    \/ CallTime(MaxTimerOps)
    \/ CallTimeEnd(MaxTimerOps)
    \/ CallClear(MaxTimerOps)
    \/ \E c \in PatchContexts \cup {None} : Patch(c, None, FALSE, MaxTimerOps)

SpecTimers == InitTimers /\ [][NextTimers]_vars

(***************************************************************************)
(* Vocabulary of the properties.                                           *)
(***************************************************************************)
\* the step is an operation (a call through the surface, a patch, a replacement)
OpStep == nOps' = nOps + 1

\* the step is a call of a method through this.console
CallStep == OpStep /\ last'.op = "call"

Synthesized == console.kind = "default"
Wrapping == console.kind = "proxy"

\* a channel's sink in the active context, before and after a call
Before(ch) == ctxHeap[context][ch]
After(ch) == ctxHeap'[context][ch]

\* the number of occurrences of pat in s
Occurrences(s, pat) == Cardinality({i \in 1..Len(s) : MatchAt(s, pat, i)})

\* text begins with pre
StartsWith(text, pre) == MatchAt(text, pre, 1)

\* post is pre after exactly one message was delivered to it: one append of a
\* newline-terminated LOG text to an accumulator, or one invocation of a callback
DeliveredOnce(pre, post) ==
    \/ /\ pre.kind = "string"
       /\ post.kind = "string"
       /\ Len(post.text) > Len(pre.text)
       /\ SubSeq(post.text, 1, Len(pre.text)) = pre.text
       /\ LET chunk == SubSeq(post.text, Len(pre.text) + 1, Len(post.text)) IN
             /\ StartsWith(chunk, LogPrefix)
             /\ chunk[Len(chunk)] = "\n"
             /\ Occurrences(chunk, LogPrefix) = 1
    \/ /\ pre.kind = "function"
       /\ post.kind = "function"
       /\ Len(post.calls) = Len(pre.calls) + 1
       /\ SubSeq(post.calls, 1, Len(pre.calls)) = pre.calls
       /\ StartsWith(post.calls[Len(post.calls)], LogPrefix)

\* the message a call delivered to the sink: the text appended without its
\* newline, or the argument of the callback
DeliveredMessage(pre, post) ==
    IF pre.kind = "string"
    THEN SubSeq(post.text, Len(pre.text) + 1, Len(post.text) - 1)
    ELSE post.calls[Len(post.calls)]

\* the methods the synthesized surface sends to the standard channel with
\* logOrSend alone, with table and trace
StandardMethods == {"log", "info", "debug", "group", "groupEnd", "table", "trace"}

(***************************************************************************)
(* C1.  Constructed with no context and no logger, both sinks are          *)
(* accumulators holding the empty string; a first call log("hi") leaves    *)
(* the standard accumulator equal to "LOG: hi\n" and the error accumulator *)
(* empty.                                                                  *)
(***************************************************************************)
LogHiLine == <<"L", "O", "G", ":", " ", "h", "i", "\n">>

FirstCallIsLogHi ==
    /\ nOps = 1
    /\ last.op = "call"
    /\ last.m = "log"
    /\ last.args = <<Str(Hi)>>

C1_DefaultContextLogHi ==
    (~ctor.context /\ ~ctor.consoleInstance) =>
        /\ nOps = 0 =>
              /\ ActiveContext.stdout = StringSink(<<>>)
              /\ ActiveContext.stderr = StringSink(<<>>)
        /\ FirstCallIsLogHi =>
              /\ ActiveContext.stdout = StringSink(LogHiLine)
              /\ ActiveContext.stderr = StringSink(<<>>)

C1_Witness == ~ctor.context /\ ~ctor.consoleInstance /\ FirstCallIsLogHi

(***************************************************************************)
(* C2.  On a synthesized surface every call of error or warn writes its    *)
(* line to the error sink and leaves the standard sink unchanged, every    *)
(* call of log, info, debug, group, groupEnd, table or trace writes its    *)
(* line to the standard sink and leaves the error sink unchanged; each     *)
(* call writes to exactly one sink exactly once.                           *)
(***************************************************************************)
C2_OneWriteToTheMappedSink ==
    [][(CallStep /\ Synthesized) =>
          /\ last'.m \in ErrorMethods =>
                /\ DeliveredOnce(Before("stderr"), After("stderr"))
                /\ After("stdout") = Before("stdout")
          /\ last'.m \in StandardMethods =>
                /\ DeliveredOnce(Before("stdout"), After("stdout"))
                /\ After("stderr") = Before("stderr")]_vars

\* C2 as amended: the one write takes place when the mapped channel's sink is
\* present; when it is absent (null) the call writes nothing at all.
C2_OneWriteToThePresentMappedSink ==
    [][(CallStep /\ Synthesized) =>
          /\ last'.m \in ErrorMethods =>
                /\ IF Before("stderr").kind = "null"
                   THEN After("stderr") = Before("stderr")
                   ELSE DeliveredOnce(Before("stderr"), After("stderr"))
                /\ After("stdout") = Before("stdout")
          /\ last'.m \in StandardMethods =>
                /\ IF Before("stdout").kind = "null"
                   THEN After("stdout") = Before("stdout")
                   ELSE DeliveredOnce(Before("stdout"), After("stdout"))
                /\ After("stderr") = Before("stderr")]_vars

\* a warn written to a present error sink while the standard sink holds text
C2_Witness ==
    /\ Synthesized
    /\ last.op = "call"
    /\ last.m = "warn"
    /\ ActiveContext.stderr.kind = "string"
    /\ ActiveContext.stderr.text # <<>>
    /\ ActiveContext.stdout.kind = "string"
    /\ ActiveContext.stdout.text # <<>>

(***************************************************************************)
(* C3.  With both a context holding accumulators and a logger instance,    *)
(* local logging is active: every log, info or debug call through the      *)
(* surface appends its formatted line to the context's standard sink and   *)
(* every error or warn call appends to its error sink.                     *)
(***************************************************************************)
ContextSupplied == ctor.context \/ context > 1

C3_LocalLoggingWithContextAndLogger ==
    [][(/\ CallStep
        /\ Wrapping
        /\ ContextSupplied
        /\ ~last'.threw
        /\ Before("stdout").kind = "string"
        /\ Before("stderr").kind = "string") =>
          /\ last'.m \in {"log", "info", "debug"} =>
                After("stdout").text
                    = Before("stdout").text \o FormatMessage(last'.args) \o Newline
          /\ last'.m \in {"error", "warn"} =>
                After("stderr").text
                    = Before("stderr").text \o FormatMessage(last'.args) \o Newline]_vars

(***************************************************************************)
(* C4.  Wrapping mode, hook mode off: one call of a function-valued method *)
(* other than assert causes exactly one invocation of the backing logger's *)
(* method of that name with the caller's arguments, returns its result and *)
(* changes neither a context sink nor the timer registry.                  *)
(***************************************************************************)
\* the function the backing logger holds under the called name
CalledBackingMethod == MethodOf(console.target, last'.m)

C6_HookModeBypassesLocalLogging ==
    [][(CallStep /\ console.hookMode) => ctxHeap' = ctxHeap]_vars

(***************************************************************************)
(* C7.  With hook mode on and a backing logger, a call of log, info,       *)
(* debug, group, groupEnd, error or warn through the surface writes the    *)
(* formatted line to the resolved sink and invokes the backing method once *)
(* with the original arguments; when the backing logger lacks the method   *)
(* the write still happens and the forwarding is skipped silently.         *)
(***************************************************************************)
C7_HookModeWritesAndForwards ==
    [][(/\ CallStep
        /\ Wrapping
        /\ console.hookMode
        /\ last'.m \in LogOrSendMethods) =>
          /\ ~last'.threw
          /\ ctxHeap'[context]
                = WriteToTarget(ctxHeap[context], last'.m, FormatMessage(last'.args))
          /\ IF CalledBackingMethod # NoImpl
             THEN /\ Len(invocations') = Len(invocations) + 1
                  /\ invocations'[Len(invocations')].args = last'.args
             ELSE invocations' = invocations]_vars

(***************************************************************************)
(* C8.  Constructed with a logger instance and no context, the engine has  *)
(* no channel sinks: whatever is called through the surface, at either     *)
(* hook setting, no text is accumulated in or delivered to a standard or   *)
(* error sink of the engine.                                               *)
(***************************************************************************)
C8_LoggerOnlyNeverAccumulates ==
    (~ctor.context /\ ctor.consoleInstance /\ context = 1) =>
        \A ch \in {"stdout", "stderr"} :
            /\ ActiveContext[ch].text = <<>>
            /\ ActiveContext[ch].calls = <<>>

(***************************************************************************)
(* C9.  assert(false, "%o", obj) on a synthesized surface whose standard   *)
(* sink is present delivers exactly one line to that sink, a line that     *)
(* contains "Assertion failed: " immediately followed by the JSON          *)
(* serialization of obj, and delivers nothing to the error sink.           *)
(***************************************************************************)
C9_AssertPercentOWritesJson ==
    [][(/\ CallStep
        /\ Synthesized
        /\ last'.m = "assert"
        /\ Len(last'.args) = 3
        /\ last'.args[1] = Bool(FALSE)
        /\ last'.args[2] = Str(PercentO)
        /\ Before("stdout").kind # "null") =>
          /\ DeliveredOnce(Before("stdout"), After("stdout"))
          /\ Includes(DeliveredMessage(Before("stdout"), After("stdout")),
                      AssertionFailedPrefix \o JsonText(last'.args[3]))
          /\ After("stderr") = Before("stderr")]_vars

(***************************************************************************)
(* C10.  assert(true, ...data) produces no output whatever the data, on    *)
(* the synthesized surface and on the proxy at either hook setting: the    *)
(* sinks and the timer registry are unchanged and no method of the backing *)
(* logger, its assert included, is invoked.                                *)
(***************************************************************************)
C10_AssertTrueDoesNothing ==
    [][(CallStep /\ last'.m = "assert" /\ last'.args[1] = Bool(TRUE)) =>
          /\ ctxHeap' = ctxHeap
          /\ timers' = timers
          /\ invocations' = invocations
          /\ last'.ret = Undefined
          /\ ~last'.threw]_vars

\* a passed assertion on a hooked proxy whose context already holds text
C10_Witness ==
    /\ Wrapping
    /\ console.hookMode
    /\ MethodOf(console.target, "assert") # NoImpl
    /\ last.op = "call"
    /\ last.m = "assert"
    /\ last.args[1] = Bool(TRUE)
    /\ ActiveContext.stdout.text # <<>>

(***************************************************************************)
(* C11.  For every argument list of strings and numbers only, the line the *)
(* formatter produces is "LOG: " followed by the arguments' string forms   *)
(* joined by single spaces, the joined text trimmed of surrounding         *)
(* whitespace: that line is what the sink of the call's channel receives.  *)
(***************************************************************************)
OnlyPrimitives(args) == \A i \in DOMAIN args : ~IsObjectTyped(args[i])

SpaceJoined(args) == Join([i \in DOMAIN args |-> ToStr(args[i])], <<" ">>)

\* the sink of the last call's channel holds exactly this line
LastCallWrote(line) ==
    LET sink == ctxHeap[context][ChannelOf(last.m)] IN
    /\ sink.kind = "string" => sink.text = line \o Newline
    /\ sink.kind = "function" => sink.calls = <<line>>

C11_PrimitivesAreSpaceJoinedAndTrimmed ==
    (last.op = "call" /\ OnlyPrimitives(last.args)) =>
        LastCallWrote(LogPrefix \o Trim(SpaceJoined(last.args)))

\* log(" a ", 12, "hi") wrote "LOG: a  12 hi\n" to the standard accumulator: the
\* outer blanks are trimmed, the inner one of " a " stays before the separator
C11_Witness ==
    /\ last.op = "call"
    /\ last.m = "log"
    /\ last.args = <<Str(<<" ", "a", " ">>), Num(12), Str(Hi)>>
    /\ ctxHeap[context].stdout.kind = "string"
    /\ ctxHeap[context].stdout.text =
          <<"L", "O", "G", ":", " ", "a", " ", " ", "1", "2", " ", "h", "i", "\n">>

(***************************************************************************)
(* C12.  Every argument, object or not, contributes its string form        *)
(* followed by one space (objects as JSON), so the line is "LOG: " and the *)
(* trimmed space-joined forms also when an object is followed by another   *)
(* argument.                                                               *)
(***************************************************************************)
JsonOrStr(v) == IF IsObjectTyped(v) THEN JsonText(v) ELSE ToStr(v)

C12_EveryArgumentIsFollowedByASpace ==
    last.op = "call" =>
        LastCallWrote(LogPrefix \o
                      Trim(Join([i \in DOMAIN last.args |-> JsonOrStr(last.args[i])], <<" ">>)))

(***************************************************************************)
(* Vocabulary of the timer claims.                                         *)
(***************************************************************************)
\* the label a call of time or timeEnd names: "default" when it names none
TimedLabel(args) == IF args = <<>> THEN DefaultLabel ELSE args[1].s

\* the step is a call of method m of the synthesized surface
SynthesizedCall(m) == CallStep /\ Synthesized /\ last'.m = m

\* the channel's sink received exactly the one line "LOG: " + text
WroteLine(ch, text) ==
    /\ DeliveredOnce(Before(ch), After(ch))
    /\ DeliveredMessage(Before(ch), After(ch)) = LogPrefix \o text

\* the same when the channel's sink is present; an absent sink stays absent
WroteLineIfPresent(ch, text) ==
    IF Before(ch).kind = "null" THEN After(ch) = Before(ch) ELSE WroteLine(ch, text)

\* time() with no label starts the timer "default" when there is none
TimeWithoutLabelStartsDefault ==
    (SynthesizedCall("time") /\ last'.args = <<>> /\ DefaultLabel \notin DOMAIN timers) =>
        /\ DOMAIN timers' = DOMAIN timers \cup {DefaultLabel}
        /\ \A l \in DOMAIN timers : timers'[l] = timers[l]
        /\ timers'[DefaultLabel] = now'
        /\ After("stdout") = Before("stdout")
        /\ After("stderr") = Before("stderr")

(***************************************************************************)
(* C13.  On a synthesized surface, time(label) for a label already in the  *)
(* timer registry leaves the registry (the entry's start timestamp)        *)
(* unchanged, does not raise, reports "Timer '<label>' already exists" as  *)
(* one line on the error sink and writes nothing to the standard sink;     *)
(* time() with no label behaves as time("default").                        *)
(***************************************************************************)
C13_TimeOnActiveLabelReportsOnErrorSink ==
    [][/\ (SynthesizedCall("time") /\ TimedLabel(last'.args) \in DOMAIN timers) =>
              /\ ~last'.threw
              /\ timers' = timers
              /\ WroteLine("stderr", TimerQuote \o TimedLabel(last'.args) \o AlreadyExists)
              /\ After("stdout") = Before("stdout")
       /\ TimeWithoutLabelStartsDefault]_vars

\* C13 as amended: the line is written when the error sink is present; when it
\* is absent (null) the report is dropped.
C13_TimeOnActiveLabelReportsOnPresentErrorSink ==
    [][/\ (SynthesizedCall("time") /\ TimedLabel(last'.args) \in DOMAIN timers) =>
              /\ ~last'.threw
              /\ timers' = timers
              /\ WroteLineIfPresent("stderr",
                                    TimerQuote \o TimedLabel(last'.args) \o AlreadyExists)
              /\ After("stdout") = Before("stdout")
       /\ TimeWithoutLabelStartsDefault]_vars

\* time("default") at 0, then time(): the entry still holds 0 and the error
\* accumulator holds the report
C13_Witness ==
    /\ Synthesized
    /\ last.op = "call"
    /\ last.m = "time"
    /\ last.args = <<>>
    /\ last.prev = <<"call", "time", <<Str(DefaultLabel)>>>>
    /\ DefaultLabel \in DOMAIN timers
    /\ timers[DefaultLabel] = 0
    /\ ActiveContext.stderr.kind = "string"
    /\ ActiveContext.stderr.text = LogPrefix \o TimerQuote \o DefaultLabel \o AlreadyExists
                                   \o Newline
    /\ ActiveContext.stdout = StringSink(<<>>)

(***************************************************************************)
(* C14.  On a synthesized surface, timeEnd(label) on an active label takes *)
(* the label out of the timer registry, so a following timeEnd(label)      *)
(* finds no entry: it reports "Timer '<label>' does not exist" on the      *)
(* error sink, writes nothing to the standard sink and leaves the registry *)
(* unchanged; neither call touches the entries of other labels.            *)
(***************************************************************************)
\* timeEnd on an active label removes that entry and no other
TimeEndRemovesTheEntry ==
    (SynthesizedCall("timeEnd") /\ TimedLabel(last'.args) \in DOMAIN timers) =>
        /\ DOMAIN timers' = DOMAIN timers \ {TimedLabel(last'.args)}
        /\ \A l \in DOMAIN timers' : timers'[l] = timers[l]

C14_SecondTimeEndReportsOnErrorSink ==
    [][/\ TimeEndRemovesTheEntry
       /\ (SynthesizedCall("timeEnd") /\ TimedLabel(last'.args) \notin DOMAIN timers) =>
              /\ ~last'.threw
              /\ timers' = timers
              /\ WroteLine("stderr", TimerQuote \o TimedLabel(last'.args) \o DoesNotExist)
              /\ After("stdout") = Before("stdout")]_vars

\* C14 as amended: the line is written when the error sink is present; when it
\* is absent (null) the report is dropped.
C14_SecondTimeEndReportsOnPresentErrorSink ==
    [][/\ TimeEndRemovesTheEntry
       /\ (SynthesizedCall("timeEnd") /\ TimedLabel(last'.args) \notin DOMAIN timers) =>
              /\ ~last'.threw
              /\ timers' = timers
              /\ WroteLineIfPresent("stderr",
                                    TimerQuote \o TimedLabel(last'.args) \o DoesNotExist)
              /\ After("stdout") = Before("stdout")]_vars

\* time("t"), timeEnd("t"), timeEnd("t"): the first timeEnd wrote the duration
\* to the standard accumulator, the second the report to the error accumulator
C14_Witness ==
    /\ Synthesized
    /\ last.op = "call"
    /\ last.m = "timeEnd"
    /\ last.args = <<Str(<<"t">>)>>
    /\ last.prev = <<"call", "timeEnd", <<Str(<<"t">>)>>>>
    /\ <<"t">> \notin DOMAIN timers
    /\ ActiveContext.stdout.kind = "string"
    /\ ActiveContext.stdout.text = LogPrefix \o <<"t", ":", " ", "1">> \o MsSuffix \o Newline
    /\ ActiveContext.stderr.kind = "string"
    /\ ActiveContext.stderr.text = LogPrefix \o TimerQuote \o <<"t">> \o DoesNotExist \o Newline

(***************************************************************************)
(* C15.  On a synthesized surface, timeEnd(label) on an active label       *)
(* writes exactly one line "LOG: <label>: <d>ms" to the standard sink,     *)
(* where d is the current timestamp minus the start timestamp the registry *)
(* holds for the label, d >= 0, and writes nothing to the error sink.      *)
(***************************************************************************)
\* the line of a timeEnd that read Date.now() = t for a timer started at start
DurationLine(label, start, t) == label \o <<":", " ">> \o NumToStr(t - start) \o MsSuffix

C15_TimeEndWritesDurationToStandardSink ==
    [][(SynthesizedCall("timeEnd") /\ TimedLabel(last'.args) \in DOMAIN timers) =>
          LET label == TimedLabel(last'.args) IN
          /\ ~last'.threw
          /\ now' - timers[label] >= 0
          /\ WroteLine("stdout", DurationLine(label, timers[label], now'))
          /\ After("stderr") = Before("stderr")]_vars

\* C15 as amended: the line is written when the standard sink is present; when
\* it is absent (null) the duration is dropped.
C15_TimeEndWritesDurationToPresentStandardSink ==
    [][(SynthesizedCall("timeEnd") /\ TimedLabel(last'.args) \in DOMAIN timers) =>
          LET label == TimedLabel(last'.args) IN
          /\ ~last'.threw
          /\ now' - timers[label] >= 0
          /\ WroteLineIfPresent("stdout", DurationLine(label, timers[label], now'))
          /\ After("stderr") = Before("stderr")]_vars

\* time() when the clock shows MaxClock, then timeEnd() at the same instant:
\* the standard accumulator holds "LOG: default: 0ms"
C15_Witness ==
    /\ Synthesized
    /\ last.op = "call"
    /\ last.m = "timeEnd"
    /\ last.args = <<>>
    /\ last.prev = <<"call", "time", <<>>>>
    /\ now = MaxClock
    /\ ActiveContext.stdout.kind = "string"
    /\ ActiveContext.stdout.text =
          LogPrefix \o DefaultLabel \o <<":", " ", "0">> \o MsSuffix \o Newline
    /\ ActiveContext.stderr = StringSink(<<>>)

(***************************************************************************)
(* C16.  clear() on a synthesized surface sets each sink that is an        *)
(* accumulator to the empty string whatever it held, leaves each callback  *)
(* sink as it was (the same callback, not invoked), leaves the timer       *)
(* registry unchanged, and invokes the clear captured from the backing     *)
(* logger exactly once if one was captured and nothing otherwise.          *)
(***************************************************************************)
Channels == {"stdout", "stderr"}

C16_ClearEmptiesAccumulatorsOnly ==
    [][SynthesizedCall("clear") =>
          /\ \A ch \in Channels :
                /\ Before(ch).kind = "string" => After(ch) = StringSink(<<>>)
                /\ Before(ch).kind = "function" => After(ch) = Before(ch)
          /\ timers' = timers
          /\ IF original["clear"] # NoImpl
             THEN /\ Len(invocations') = Len(invocations) + 1
                  /\ SubSeq(invocations', 1, Len(invocations)) = invocations
                  /\ invocations'[Len(invocations')].impl = original["clear"]
             ELSE invocations' = invocations]_vars

\* warn("hi") to an error accumulator, then clear(): the accumulator is empty
\* again and the standard callback was not invoked
C16_Witness ==
    /\ Synthesized
    /\ last.op = "call"
    /\ last.m = "clear"
    /\ last.prev = <<"call", "warn", <<Str(Hi)>>>>
    /\ ActiveContext.stderr = StringSink(<<>>)
    /\ ActiveContext.stdout = FunctionSink
    /\ invocations = <<>>

(***************************************************************************)
(* C17.  When a channel's sink in the active context is absent (null), no  *)
(* call of the synthesized surface turns it into a string or a callback,   *)
(* clear() included, and every logging call routed to that channel is a    *)
(* no-op: it does not raise and leaves the other channel's sink, like the  *)
(* whole context, unchanged.                                               *)
(***************************************************************************)
\* the channel a logging call of the synthesized surface is routed to
RoutedTo(m) == IF m \in ErrorMethods THEN "stderr" ELSE "stdout"

LoggingMethods == ErrorMethods \cup StandardMethods \cup {"assert"}

C17_AbsentSinkStaysAbsent ==
    [][(CallStep /\ Synthesized) =>
          /\ \A ch \in Channels : Before(ch).kind = "null" => After(ch) = Before(ch)
          /\ (last'.m \in LoggingMethods /\ Before(RoutedTo(last'.m)).kind = "null") =>
                /\ ~last'.threw
                /\ ctxHeap' = ctxHeap
                /\ invocations' = invocations]_vars

\* error("hi") with the error sink absent, then clear(): the sink is still
\* absent and the standard accumulator still empty
C17_Witness ==
    /\ Synthesized
    /\ last.op = "call"
    /\ last.m = "clear"
    /\ last.prev = <<"call", "error", <<Str(Hi)>>>>
    /\ ActiveContext.stderr = NullSink
    /\ ActiveContext.stdout = StringSink(<<>>)

(***************************************************************************)
(* C18.  patch(newContext) with no logger makes newContext the active      *)
(* context and changes nothing else: the surface, its hook setting and the *)
(* timer registry stay as they were, so a timer started before the patch   *)
(* is ended after it with its duration written to newContext; every write  *)
(* goes to the active context only, so a replaced context is never changed *)
(* again.  patch() with no parameters changes no state at all.             *)
(***************************************************************************)
\* the step is a patch that supplies no logger
PatchWithoutLogger == OpStep /\ last'.op = "patch" /\ loggers' = loggers

C18_PatchContextReplacesOnlyTheContext ==
    [][/\ PatchWithoutLogger =>
              /\ console' = console
              /\ timers' = timers
              /\ original' = original
              /\ invocations' = invocations
              /\ \/ /\ context' = context
                    /\ ctxHeap' = ctxHeap
                 \/ /\ context' = Len(ctxHeap) + 1
                    /\ Len(ctxHeap') = Len(ctxHeap) + 1
                    /\ ctxHeap'[context'] \in PatchContexts
       /\ \A i \in DOMAIN ctxHeap : i # context' => ctxHeap'[i] = ctxHeap[i]]_vars

\* time("t") at 0 with the default context, patch({ stdout: '', stderr: '' }),
\* timeEnd("t") at 1: the duration is in the new context, the old one is empty
C18_Witness ==
    /\ Synthesized
    /\ last.op = "call"
    /\ last.m = "timeEnd"
    /\ last.args = <<Str(<<"t">>)>>
    /\ last.prev = <<"patch", "", <<>>>>
    /\ ~ctor.context
    /\ Len(ctxHeap) = 2
    /\ context = 2
    /\ ctxHeap[2].stdout = StringSink(LogPrefix \o <<"t", ":", " ", "1">> \o MsSuffix \o Newline)
    /\ ctxHeap[2].stderr = StringSink(<<>>)
    /\ ctxHeap[1] = DefaultContext

(***************************************************************************)
(* C19.  A synthesized surface created with hook mode true behaves as one  *)
(* created with hook mode false: every call has the effect on the sinks,   *)
(* the callbacks and the timer registry, and the return value, that the    *)
(* same call has from the same state with the other hook setting, and it   *)
(* invokes no backing method.                                              *)
(***************************************************************************)
\* what the call of m with args, reading the clock as t, does from the current
\* state when the surface's hook setting is hookMode
OutcomesOf(m, args, t, hookMode) ==
    LET ctx == ActiveContext
        inv == invocations
        label == TimedLabel(args)
        Report(method, text) == LogOrSend(method, hookMode, <<Str(text)>>, ctx, inv)
    IN CASE m \in LogOrSendMethods -> {<<LogOrSend(m, hookMode, args, ctx, inv), timers>>}
         [] m = "table" -> {<<DefaultTable(hookMode, args, ctx, inv), timers>>}
         [] m = "assert" ->
               {<<DefaultAssert(hookMode, args[1].b, Tail(args), ctx, inv), timers>>}
         [] m = "trace" ->
               {<<DefaultTrace(hookMode, args, stack, ctx, inv), timers>> :
                   stack \in {Str(StackText), Undefined}}
         [] m = "clear" -> {<<DefaultClear(ctx, inv), timers>>}
         [] m = "time" ->
               IF label \in DOMAIN timers
               THEN {<<Report("error", TimerQuote \o label \o AlreadyExists), timers>>}
               ELSE {<<Result(ctx, inv, Undefined),
                       [l \in DOMAIN timers \cup {label} |->
                           IF l = label THEN t ELSE timers[l]]>>}
         [] m = "timeEnd" ->
               IF label \in DOMAIN timers
               THEN {<<Report("log", DurationLine(label, timers[label], t)),
                       [l \in DOMAIN timers \ {label} |-> timers[l]]>>}
               ELSE {<<Report("error", TimerQuote \o label \o DoesNotExist), timers>>}

C19_HookModeIsIgnoredOnSynthesizedSurface ==
    [][(CallStep /\ Synthesized) =>
          /\ ~last'.threw
          /\ invocations' = invocations
          /\ <<Result(ctxHeap'[context], invocations', last'.ret), timers'>>
                \in OutcomesOf(last'.m, last'.args, now', ~console.hookMode)]_vars

\* constructed with a context only and hook mode true: log("hi") wrote its
\* line and invoked nothing
C19_Witness ==
    /\ Synthesized
    /\ ctor.hookMode
    /\ console.hookMode
    /\ last.op = "call"
    /\ last.m = "log"
    /\ last.args = <<Str(Hi)>>
    /\ last.ret = Undefined
    /\ ActiveContext.stdout.kind = "string"
    /\ ActiveContext.stdout.text # <<>>
    /\ invocations = <<>>

(***************************************************************************)
(* C20.  After patch(_, L2, hook) has supplied a new backing logger L2,    *)
(* every invocation of a backing method caused by a call on the re-derived *)
(* surface is an invocation of a method of L2 - the hook-mode forwarding   *)
(* of a failed assert included, which takes place also when no logger was  *)
(* given at construction - and no method captured from the constructor's   *)
(* logger is invoked any more.                                             *)
(***************************************************************************)
\* the surface was re-derived by patch: it wraps a logger other than the one
\* given to the constructor
SurfaceRederived == Wrapping /\ (ctor.consoleInstance => console.target > 1)

\* the invocations of backing methods a step adds
NewInvocations == {invocations'[i] : i \in Len(invocations) + 1 .. Len(invocations')}

C20_PatchedLoggerReceivesEveryInvocation ==
    [][(CallStep /\ SurfaceRederived) =>
          /\ \A call \in NewInvocations : call.impl.obj = console.target
          /\ (last'.m = "assert" /\ ~last'.args[1].b /\ console.hookMode) =>
                \E call \in NewInvocations : call.impl = MethodOf(console.target, "log")]_vars

(***************************************************************************)
(* C21.  The backing logger's implementations are captured once, when the  *)
(* logger is supplied: after a method of the logger object was replaced,   *)
(* every call through the surface - passthrough, hook-mode wrapper and the *)
(* hook-mode forwarding of a failed assert - still invokes the function    *)
(* the object held when it was supplied, never the replacement.            *)
(***************************************************************************)
\* the function logger object l held under m when it was handed to the engine
SuppliedMethod(l, m) == [obj |-> l, m |-> m, gen |-> 0]

\* the function logger object l holds under m at the time of the call
CurrentMethod(l, m) == [obj |-> l, m |-> m, gen |-> loggers[l].fn[m]]

C21_CallsInvokeTheCapturedImplementation ==
    [][(CallStep /\ Wrapping) =>
          \A call \in NewInvocations : call.impl = SuppliedMethod(call.impl.obj, call.impl.m)]_vars

\* C21 as amended: only the hook-mode forwarding of a failed assert invokes a
\* captured function, the log copied from the constructor's logger; the
\* passthrough and the hook-mode wrapper invoke the function the wrapped
\* logger holds under the called name at the time of the call, which is the
\* replacement once the method was replaced.
C21_OnlyAssertForwardingInvokesTheCapturedLog ==
    [][(CallStep /\ Wrapping) =>
          \A call \in NewInvocations :
             IF last'.m = "assert"
             THEN /\ ctor.consoleInstance
                  /\ call.impl = SuppliedMethod(1, "log")
                  /\ call.impl = original["log"]
             ELSE call.impl = CurrentMethod(console.target, last'.m)]_vars

\* the logger's log was replaced after construction, then log("hi") was called
\* through the surface: the replacement was invoked
C21_Witness ==
    /\ Wrapping
    /\ last.op = "call"
    /\ last.m = "log"
    /\ last.args = <<Str(Hi)>>
    /\ last.prev = <<"replace", "log", <<>>>>
    /\ Len(invocations) >= 1
    /\ invocations[Len(invocations)].impl = [obj |-> 1, m |-> "log", gen |-> 1]

\* the logger's log was replaced after construction in hook mode, then a
\* failed assert was forwarded: the log captured at construction was invoked
C21_AssertWitness ==
    /\ Wrapping
    /\ console.hookMode
    /\ last.op = "call"
    /\ last.m = "assert"
    /\ last.prev = <<"replace", "log", <<>>>>
    /\ loggers[1].fn["log"] = 1
    /\ invocations = <<Invocation(SuppliedMethod(1, "log"), "copy",
                                  <<Str(AssertionFailedColon)>> \o Tail(last.args))>>

(***************************************************************************)
(* C22.  Every logging call of the synthesized surface whose channel's     *)
(* sink is present delivers exactly one newline-terminated line: an        *)
(* accumulator becomes its previous content followed by the line, a        *)
(* callback is invoked exactly once with that same newline-terminated      *)
(* line, so both kinds of sink receive the same text for the same call.    *)
(***************************************************************************)
\* the text an accumulator gained in the step
Appended(ch) == SubSeq(After(ch).text, Len(Before(ch).text) + 1, Len(After(ch).text))

\* the arguments of the callback invocations the step made
NewCallbackCalls(ch) ==
    SubSeq(After(ch).calls, Len(Before(ch).calls) + 1, Len(After(ch).calls))

EndsWithNewline(text) == text # <<>> /\ text[Len(text)] = "\n"

\* an accumulator keeps its content as a prefix and gains one terminated line
AccumulatorGainsOneLine(ch) ==
    /\ After(ch).kind = "string"
    /\ Len(After(ch).text) > Len(Before(ch).text)
    /\ SubSeq(After(ch).text, 1, Len(Before(ch).text)) = Before(ch).text
    /\ EndsWithNewline(Appended(ch))
    /\ Occurrences(Appended(ch), LogPrefix) = 1

\* a callback is invoked once more
CallbackInvokedOnce(ch) ==
    /\ After(ch).kind = "function"
    /\ Len(After(ch).calls) = Len(Before(ch).calls) + 1
    /\ SubSeq(After(ch).calls, 1, Len(Before(ch).calls)) = Before(ch).calls

C22_PresentSinkReceivesOneTerminatedLine ==
    [][(CallStep /\ Synthesized /\ last'.m \in ErrorMethods \cup StandardMethods) =>
          LET ch == RoutedTo(last'.m)
              line == LogPrefix \o Trim(ConcatArgs(last'.args)) \o Newline
          IN /\ Before(ch).kind = "string" =>
                   /\ AccumulatorGainsOneLine(ch)
                   /\ last'.m \in LogOrSendMethods => Appended(ch) = line
             /\ Before(ch).kind = "function" =>
                   /\ CallbackInvokedOnce(ch)
                   /\ EndsWithNewline(NewCallbackCalls(ch)[1])
                   /\ last'.m \in LogOrSendMethods => NewCallbackCalls(ch)[1] = line]_vars

(***************************************************************************)
(* C23.  For a fixed active context each channel's sink keeps its kind in  *)
(* every reachable state: no operation of the surface turns an accumulator *)
(* into a callback or an absent sink, a callback into an accumulator or an *)
(* absent sink, or an absent sink into a present one; the kind of a        *)
(* channel's sink changes only by a patch that supplies a new context.     *)
(***************************************************************************)
C23_SinkKindIsFixedPerContext ==
    [][/\ \A i \in DOMAIN ctxHeap : \A ch \in Channels :
             ctxHeap'[i][ch].kind = ctxHeap[i][ch].kind
       /\ (\E ch \in Channels : After(ch).kind # Before(ch).kind
              \/ ctxHeap'[context'][ch].kind # Before(ch).kind) =>
             /\ last'.op = "patch"
             /\ context' # context]_vars

\* log("hi") to a standard callback, then clear(): the standard sink is still
\* the callback, invoked once, and the error sink still an accumulator
C23_Witness ==
    /\ Synthesized
    /\ context = 1
    /\ last.op = "call"
    /\ last.m = "clear"
    /\ last.prev = <<"call", "log", <<Str(Hi)>>>>
    /\ ActiveContext.stdout.kind = "function"
    /\ Len(ActiveContext.stdout.calls) = 1
    /\ ActiveContext.stderr = StringSink(<<>>)
====
